---- MODULE Spec2Model ----
(***************************************************************************)
(* Producer/consumer lifecycle of ImageBatchProcessor:                     *)
(*   BatchProcessorApp (src/src/app_manager.py) is the Dispatcher and the  *)
(*   producer; ImageWorker (src/src/worker.py) is the consumer thread.     *)
(* The shared queue.Queue is modelled by task_queue (its deque) and        *)
(* unfinished (its unfinished_tasks counter); threading.Event by           *)
(* stop_event.  Every queue/event method is one atomic step, as each runs  *)
(* under the object's own lock.                                            *)
(***************************************************************************)
EXTENDS Integers, Sequences, FiniteSets, TLC

\* ---------------------------------------------------------------- bounds
MaxFiles == 3        \* longest directory listing explored
MaxThreads == 2      \* largest configured number_of_threads explored
MaxCpu == 1          \* largest os.cpu_count() explored
MaxRuns == 2         \* run() invocations on one object (SpecRerun only)

\* ------------------------------------------------------ program constants
DefaultThreads == 4  \* "os.cpu_count() or 4"

NoTask == 0
NotRead == -1        \* cpu_count before os.cpu_count() is called
CpuUnknown == 0      \* os.cpu_count() returned None

\* --------------------------------------------------------- input universe
\* A directory entry: what os.path.isfile / str.lower().endswith /
\* os.path.getsize / Image.open observe of it.
EntryKinds ==
    { [isfile |-> TRUE,  ext |-> ".jpg", size |-> 1, corrupt |-> FALSE],
      [isfile |-> TRUE,  ext |-> ".PNG", size |-> 1, corrupt |-> TRUE ],
      [isfile |-> TRUE,  ext |-> ".txt", size |-> 1, corrupt |-> FALSE],
      [isfile |-> TRUE,  ext |-> ".png", size |-> 0, corrupt |-> FALSE],
      [isfile |-> FALSE, ext |-> ".jpg", size |-> 1, corrupt |-> FALSE] }

Listings == UNION { [1..n -> EntryKinds] : n \in 0..MaxFiles }

\* Outcome of os.listdir(src): a listing, or the exception it raises.
DirStates ==
    { [status |-> "ok", entries |-> l] : l \in Listings }
      \cup { [status |-> s, entries |-> << >>] :
                 s \in {"missing", "denied", "notdir"} }

CpuCounts == 1..MaxCpu

VARIABLES
    config_threads,  \* self.config['number_of_threads']
    srcDir,          \* state of self.config['source_folder'] on disk
    dpc,             \* position of the main thread in BatchProcessorApp
    count,           \* _start_workers: count
    spawned,         \* _start_workers: loop index i
    threads,         \* self.threads
    next_entry,      \* _produce_tasks: position in os.listdir(src)
    added_count,     \* _produce_tasks: added_count
    skipped_count,   \* _produce_tasks: skipped_count
    joined,          \* _wait_for_completion: threads already joined
    task_queue,      \* self.task_queue (pending items, head first)
    unfinished,      \* self.task_queue.unfinished_tasks
    stop_event,      \* self.stop_event
    pc,              \* position of each ImageWorker thread
    file_name,       \* ImageWorker.run: local file_name of each worker
    enq,             \* history: tasks put, in order
    deq,             \* history: tasks returned by get, in order
    acks,            \* history: task_done calls per task
    succeeded,       \* history: tasks logged "Finished"
    failed,          \* history: tasks logged "Error processing"
    atStop,          \* history: queue content when stop_event was first set
    runs,            \* history: run() invocations so far
    cfgFile,         \* conf/config.json on disk
    config,          \* self.config
    raised,          \* exception that left __init__ or run(), if any
    attrs,           \* instance attributes bound by __init__ so far
    cpu_count,       \* _start_workers: cpu_count
    heldAtStop       \* history: tasks held when stop_event was first set

vars == << config_threads, srcDir, dpc, count, spawned, threads, next_entry,
           added_count, skipped_count, joined, task_queue, unfinished,
           stop_event, pc, file_name, enq, deq, acks, succeeded, failed,
           atStop, runs, cfgFile, config, raised, attrs, cpu_count,
           heldAtStop >>

cfgVars == << cfgFile, config, raised, attrs, cpu_count >>
dispVars == << dpc, count, spawned, threads, next_entry, added_count,
               skipped_count, joined >>
histVars == << enq, deq, acks, succeeded, failed, atStop, runs >>

Range(s) == { s[i] : i \in DOMAIN s }
Workers == DOMAIN pc
Tasks == 1..Len(srcDir.entries)

\* --------------------------------------------------------- pure functions
\* str.lower() on the extensions of EntryKinds
Lower(e) ==
    CASE e = ".PNG" -> ".png"
      [] e = ".JPG" -> ".jpg"
      [] OTHER -> e

valid_extensions == {".jpg", ".jpeg", ".png", ".bmp"}

\* ValidateInputFile comparing the extension without file_name.lower()
ValidateInputFile_CaseSensitive(e) ==
    IF ~e.isfile THEN FALSE
    ELSE IF e.ext \notin valid_extensions THEN FALSE
    ELSE IF e.size = 0 THEN FALSE
    ELSE TRUE

\* BatchProcessorApp._validate_input_file
ValidateInputFile(e) ==
    IF ~e.isfile THEN FALSE
    ELSE IF Lower(e.ext) \notin valid_extensions THEN FALSE
    ELSE IF e.size = 0 THEN FALSE
    ELSE TRUE

\* PoolSize without the "or 4" fallback
PoolSize_NoFallback(cfg, cpu) ==
    IF cfg <= 0 THEN cpu ELSE cfg

\* _start_workers: the number of threads to spawn
PoolSize(cfg, cpu) ==
    IF cfg <= 0
    THEN (IF cpu = CpuUnknown THEN DefaultThreads ELSE cpu)
    ELSE cfg

\* json.load on an object: a dict in which the last member of a name wins
JsonLoad(members) ==
    [k \in {members[i][1] : i \in DOMAIN members} |->
        LET last == CHOOSE i \in DOMAIN members :
                        /\ members[i][1] = k
                        /\ \A j \in DOMAIN members :
                              members[j][1] = k => j <= i
        IN members[last][2]]

\* LoadConfig returning an empty dict where json.load fails
LoadConfig_Swallows(file) ==
    IF ~file.exists
    THEN [raises |-> "FileNotFoundError", value |-> << >>]
    ELSE IF file.json # "valid"
    THEN [raises |-> "none", value |-> << >>]
    ELSE [raises |-> "none", value |-> JsonLoad(file.members)]

\* ConfigLoader.load_config: the exception raised, or the dict returned
LoadConfig(file) ==
    IF ~file.exists
    THEN [raises |-> "FileNotFoundError", value |-> << >>]
    ELSE IF file.json # "valid"
    THEN [raises |-> "ValueError", value |-> << >>]
    ELSE [raises |-> "none", value |-> JsonLoad(file.members)]

\* os.path.join(self.base_dir, p) for the relative paths of the model
JoinBase(p) ==
    CASE p = "data/input" -> "/app/data/input"
      [] p = "data/output" -> "/app/data/output"
      [] p = "logs/app.log" -> "/app/logs/app.log"
      [] OTHER -> p

\* _resolve_paths: the keys, in the order of its for loop
PathKeyOrder == << "source_folder", "destination_folder", "log_file" >>
PathKeys == Range(PathKeyOrder)

\* _resolve_paths: the first key of the loop that cfg lacks raises KeyError;
\* the keys before it have been rewritten by then
ResolvedKeys(cfg) ==
    {PathKeyOrder[i] : i \in {j \in DOMAIN PathKeyOrder :
                                \A h \in 1..j : PathKeyOrder[h] \in DOMAIN cfg}}

\* BatchProcessorApp._resolve_paths
ResolvePaths(cfg) ==
    [k \in DOMAIN cfg |->
        IF k \in ResolvedKeys(cfg) THEN JoinBase(cfg[k]) ELSE cfg[k]]

\* A config.json with every key the application reads
FullDoc(n) ==
    << <<"source_folder", "data/input">>,
       <<"destination_folder", "data/output">>,
       <<"log_file", "logs/app.log">>,
       <<"number_of_threads", n>> >>

\* conf/config.json: absent, not JSON, or a JSON object given by its members
ConfigFiles ==
    { [exists |-> FALSE, json |-> "valid", members |-> << >>],
      [exists |-> TRUE, json |-> "invalid", members |-> << >>],
      [exists |-> TRUE, json |-> "valid", members |-> << >>],
      [exists |-> TRUE, json |-> "valid",
       members |-> SubSeq(FullDoc(0), 1, 3)],
      [exists |-> TRUE, json |-> "valid",
       members |-> << <<"number_of_threads", 1>> >> \o SubSeq(FullDoc(0), 1, 2)],
      [exists |-> TRUE, json |-> "valid",
       members |-> << <<"number_of_threads", 1>> >> \o FullDoc(2)] }
      \cup { [exists |-> TRUE, json |-> "valid", members |-> FullDoc(n)] :
                 n \in 0..MaxThreads }

\* Source folders explored together with the configuration files
ConfigDirStates == { d \in DirStates : Len(d.entries) <= 1 }

BaseAttrs == {"base_dir", "config_path"}
AllAttrs == BaseAttrs \cup {"config", "task_queue", "stop_event", "threads"}

\* ------------------------------------------------------------------- Init
\* BatchProcessorApp.__init__
Init ==
    /\ config_threads \in 0..MaxThreads
    /\ srcDir \in DirStates
    /\ dpc = "constructed"
    /\ count = 0
    /\ spawned = 0
    /\ threads = << >>
    /\ next_entry = 0
    /\ added_count = 0
    /\ skipped_count = 0
    /\ joined = 0
    /\ task_queue = << >>
    /\ unfinished = 0
    /\ stop_event = FALSE
    /\ pc = << >>
    /\ file_name = << >>
    /\ enq = << >>
    /\ deq = << >>
    /\ acks = [t \in 1..MaxFiles |-> 0]
    /\ succeeded = {}
    /\ failed = {}
    /\ atStop = {}
    /\ runs = 0
    /\ cfgFile = [exists |-> TRUE, json |-> "valid",
                  members |-> FullDoc(config_threads)]
    /\ config = ResolvePaths(JsonLoad(cfgFile.members))
    /\ raised = "none"
    /\ attrs = AllAttrs
    /\ cpu_count = NotRead
    /\ heldAtStop = {}

\* The state before BatchProcessorApp() is called
InitConfig ==
    /\ config_threads = 0
    /\ srcDir \in ConfigDirStates
    /\ dpc = "new"
    /\ count = 0
    /\ spawned = 0
    /\ threads = << >>
    /\ next_entry = 0
    /\ added_count = 0
    /\ skipped_count = 0
    /\ joined = 0
    /\ task_queue = << >>
    /\ unfinished = 0
    /\ stop_event = FALSE
    /\ pc = << >>
    /\ file_name = << >>
    /\ enq = << >>
    /\ deq = << >>
    /\ acks = [t \in 1..MaxFiles |-> 0]
    /\ succeeded = {}
    /\ failed = {}
    /\ atStop = {}
    /\ runs = 0
    /\ cfgFile \in ConfigFiles
    /\ config = << >>
    /\ raised = "none"
    /\ attrs = {}
    /\ cpu_count = NotRead
    /\ heldAtStop = {}

\* ------------------------------------------------------------- Dispatcher
\* __init__: paths, then self.config = loader.load_config()
LoadStep ==
    /\ dpc = "new"
    /\ LET r == LoadConfig(cfgFile) IN
         IF r.raises # "none"
         THEN /\ dpc' = "init_failed"
              /\ raised' = r.raises
              /\ attrs' = BaseAttrs
              /\ UNCHANGED config
         ELSE /\ dpc' = "loaded"
              /\ config' = r.value
              /\ attrs' = BaseAttrs \cup {"config"}
              /\ UNCHANGED raised
    /\ UNCHANGED << cfgFile, cpu_count, heldAtStop >>
    /\ UNCHANGED << config_threads, srcDir, count, spawned, threads,
                    next_entry, added_count, skipped_count, joined,
                    task_queue, unfinished, stop_event, pc, file_name >>
    /\ UNCHANGED histVars

\* __init__: _resolve_paths, logging, then queue, event and thread list
ResolveStep ==
    /\ dpc = "loaded"
    /\ config' = ResolvePaths(config)
    /\ IF PathKeys \subseteq DOMAIN config
       THEN /\ dpc' = "constructed"
            /\ attrs' = AllAttrs
            /\ UNCHANGED raised
       ELSE /\ dpc' = "init_failed"
            /\ raised' = "KeyError"
            /\ UNCHANGED attrs
    /\ UNCHANGED << cfgFile, cpu_count, heldAtStop >>
    /\ UNCHANGED << config_threads, srcDir, count, spawned, threads,
                    next_entry, added_count, skipped_count, joined,
                    task_queue, unfinished, stop_event, pc, file_name >>
    /\ UNCHANGED histVars

\* run(): entry, and the first half of _start_workers (count is decided)
RunBody(cpu) ==
    /\ runs' = runs + 1
    /\ IF "number_of_threads" \notin DOMAIN config
       THEN /\ dpc' = "aborted"
            /\ raised' = "KeyError"
            /\ UNCHANGED << config_threads, count, spawned, cpu_count >>
       ELSE /\ config_threads' = config["number_of_threads"]
            /\ cpu_count' = IF config["number_of_threads"] <= 0
                            THEN cpu ELSE cpu_count
            /\ count' = PoolSize(config["number_of_threads"], cpu)
            /\ spawned' = 0
            /\ dpc' = "spawn"
            /\ UNCHANGED raised
    /\ UNCHANGED << cfgFile, config, attrs >>
    /\ UNCHANGED heldAtStop
    /\ UNCHANGED << srcDir, threads, next_entry, added_count,
                    skipped_count, joined, task_queue, unfinished, stop_event,
                    pc, file_name, enq, deq, acks, succeeded, failed, atStop >>

Run ==
    /\ dpc = "constructed"
    /\ \E cpu \in CpuCounts : RunBody(cpu)

\* run() on a machine where os.cpu_count() may also return None
RunAnyCpu ==
    /\ dpc = "constructed"
    /\ \E cpu \in CpuCounts \cup {CpuUnknown} : RunBody(cpu)

\* run() called once more on the same object after it returned
RunAgain ==
    /\ dpc = "finished"
    /\ runs < MaxRuns
    /\ \E cpu \in CpuCounts : RunBody(cpu)

\* _start_workers: one iteration of "for i in range(count)"
StartWorker ==
    /\ dpc = "spawn"
    /\ spawned < count
    /\ LET w == Len(threads) + 1 IN
         /\ threads' = Append(threads, w)
         /\ pc' = Append(pc, "check")
         /\ file_name' = Append(file_name, NoTask)
    /\ spawned' = spawned + 1
    /\ UNCHANGED cfgVars
    /\ UNCHANGED heldAtStop
    /\ UNCHANGED << config_threads, srcDir, dpc, count, next_entry,
                    added_count, skipped_count, joined, task_queue,
                    unfinished, stop_event >>
    /\ UNCHANGED histVars

\* ListDir for a run() that calls _produce_tasks without waiting for the
\* spawn loop to end
ListDir_BeforeWorkers ==
    /\ dpc = "spawn"
    /\ spawned <= count
    /\ added_count' = 0
    /\ skipped_count' = 0
    /\ next_entry' = 1
    /\ dpc' = CASE srcDir.status = "ok" ->
                     IF Len(srcDir.entries) = 0 THEN "join" ELSE "enum"
                [] srcDir.status \in {"missing", "denied"} -> "join"
                [] OTHER -> "aborted"
    /\ UNCHANGED cfgVars
    /\ UNCHANGED heldAtStop
    /\ UNCHANGED << config_threads, srcDir, count, spawned, threads, joined,
                    task_queue, unfinished, stop_event, pc, file_name >>
    /\ UNCHANGED histVars

\* _produce_tasks: os.listdir(src) and the except clauses
ListDir ==
    /\ dpc = "spawn"
    /\ spawned = count
    /\ added_count' = 0
    /\ skipped_count' = 0
    /\ next_entry' = 1
    /\ dpc' = CASE srcDir.status = "ok" ->
                     IF Len(srcDir.entries) = 0 THEN "join" ELSE "enum"
                [] srcDir.status \in {"missing", "denied"} -> "join"
                [] OTHER -> "aborted"
    /\ UNCHANGED cfgVars
    /\ UNCHANGED heldAtStop
    /\ UNCHANGED << config_threads, srcDir, count, spawned, threads, joined,
                    task_queue, unfinished, stop_event, pc, file_name >>
    /\ UNCHANGED histVars

\* _produce_tasks: one iteration of "for entry in os.listdir(src)"
ProduceEntry ==
    /\ dpc = "enum"
    /\ next_entry <= Len(srcDir.entries)
    /\ IF ValidateInputFile(srcDir.entries[next_entry])
       THEN /\ task_queue' = Append(task_queue, next_entry)
            /\ unfinished' = unfinished + 1
            /\ added_count' = added_count + 1
            /\ enq' = Append(enq, next_entry)
            /\ UNCHANGED skipped_count
       ELSE /\ skipped_count' = skipped_count + 1
            /\ UNCHANGED << task_queue, unfinished, added_count, enq >>
    /\ next_entry' = next_entry + 1
    /\ dpc' = IF next_entry = Len(srcDir.entries) THEN "join" ELSE "enum"
    /\ UNCHANGED cfgVars
    /\ UNCHANGED heldAtStop
    /\ UNCHANGED << config_threads, srcDir, count, spawned, threads, joined,
                    stop_event, pc, file_name, deq, acks, succeeded, failed,
                    atStop, runs >>

\* QueueJoin for a _wait_for_completion without task_queue.join()
QueueJoin_NoWait ==
    /\ dpc = "join"
    /\ dpc' = "set"
    /\ UNCHANGED cfgVars
    /\ UNCHANGED heldAtStop
    /\ UNCHANGED << config_threads, srcDir, count, spawned, threads,
                    next_entry, added_count, skipped_count, joined,
                    task_queue, unfinished, stop_event, pc, file_name >>
    /\ UNCHANGED histVars

\* QueueJoin waiting for queue.empty() instead of unfinished_tasks == 0
QueueJoin_OnEmpty ==
    /\ dpc = "join"
    /\ task_queue = << >>
    /\ dpc' = "set"
    /\ UNCHANGED cfgVars
    /\ UNCHANGED heldAtStop
    /\ UNCHANGED << config_threads, srcDir, count, spawned, threads,
                    next_entry, added_count, skipped_count, joined,
                    task_queue, unfinished, stop_event, pc, file_name >>
    /\ UNCHANGED histVars

\* _wait_for_completion: self.task_queue.join() returns
QueueJoin ==
    /\ dpc = "join"
    /\ unfinished = 0
    /\ dpc' = "set"
    /\ UNCHANGED cfgVars
    /\ UNCHANGED heldAtStop
    /\ UNCHANGED << config_threads, srcDir, count, spawned, threads,
                    next_entry, added_count, skipped_count, joined,
                    task_queue, unfinished, stop_event, pc, file_name >>
    /\ UNCHANGED histVars

\* _wait_for_completion: self.stop_event.set()
StopSet ==
    /\ dpc = "set"
    /\ stop_event' = TRUE
    /\ atStop' = IF stop_event THEN atStop ELSE Range(task_queue)
    /\ heldAtStop' = IF stop_event THEN heldAtStop
                     ELSE {file_name[w] : w \in {v \in DOMAIN pc :
                                           pc[v] \in {"process", "ack"}}}
    /\ dpc' = "jointhreads"
    /\ joined' = 0
    /\ UNCHANGED cfgVars
    /\ UNCHANGED << config_threads, srcDir, count, spawned, threads,
                    next_entry, added_count, skipped_count, task_queue,
                    unfinished, pc, file_name, enq, deq, acks, succeeded,
                    failed, runs >>

\* ThreadJoin clearing the event once the last thread has been joined
ThreadJoin_ClearsStop ==
    /\ dpc = "jointhreads"
    /\ joined < Len(threads)
    /\ pc[threads[joined + 1]] \in {"stopped", "crashed"}
    /\ joined' = joined + 1
    /\ dpc' = IF joined + 1 = Len(threads) THEN "finished" ELSE "jointhreads"
    /\ stop_event' = IF joined + 1 = Len(threads) THEN FALSE ELSE stop_event
    /\ UNCHANGED cfgVars
    /\ UNCHANGED heldAtStop
    /\ UNCHANGED << config_threads, srcDir, count, spawned, threads,
                    next_entry, added_count, skipped_count, task_queue,
                    unfinished, pc, file_name >>
    /\ UNCHANGED histVars

\* _wait_for_completion: one iteration of "for t in self.threads: t.join()"
ThreadJoin ==
    /\ dpc = "jointhreads"
    /\ joined < Len(threads)
    /\ pc[threads[joined + 1]] \in {"stopped", "crashed"}
    /\ joined' = joined + 1
    /\ dpc' = IF joined + 1 = Len(threads) THEN "finished" ELSE "jointhreads"
    /\ UNCHANGED cfgVars
    /\ UNCHANGED heldAtStop
    /\ UNCHANGED << config_threads, srcDir, count, spawned, threads,
                    next_entry, added_count, skipped_count, task_queue,
                    unfinished, stop_event, pc, file_name >>
    /\ UNCHANGED histVars

\* ------------------------------------------------------------ ImageWorker
\* LoopTestStop for the condition "while not self.stop_event.is_set()"
LoopTestStop_IgnoresQueue(w) ==
    /\ pc[w] = "check"
    /\ pc' = [pc EXCEPT ![w] = IF stop_event THEN "stopped" ELSE "get"]
    /\ UNCHANGED cfgVars
    /\ UNCHANGED heldAtStop
    /\ UNCHANGED << config_threads, srcDir, task_queue, unfinished,
                    stop_event, file_name >>
    /\ UNCHANGED dispVars
    /\ UNCHANGED histVars

\* run(): "while not self.stop_event.is_set() ..." (left operand)
LoopTestStop(w) ==
    /\ pc[w] = "check"
    /\ pc' = [pc EXCEPT ![w] = IF stop_event THEN "checkq" ELSE "get"]
    /\ UNCHANGED cfgVars
    /\ UNCHANGED heldAtStop
    /\ UNCHANGED << config_threads, srcDir, task_queue, unfinished,
                    stop_event, file_name >>
    /\ UNCHANGED dispVars
    /\ UNCHANGED histVars

\* run(): "... or not self.task_queue.empty()" (right operand, read only
\* when the event is set); a false condition ends the thread
LoopTestEmpty(w) ==
    /\ pc[w] = "checkq"
    /\ pc' = [pc EXCEPT ![w] = IF task_queue = << >> THEN "stopped" ELSE "get"]
    /\ UNCHANGED cfgVars
    /\ UNCHANGED heldAtStop
    /\ UNCHANGED << config_threads, srcDir, task_queue, unfinished,
                    stop_event, file_name >>
    /\ UNCHANGED dispVars
    /\ UNCHANGED histVars

\* Get on a LIFO queue: the most recently put item is returned
Get_LIFO(w) ==
    /\ pc[w] = "get"
    /\ task_queue # << >>
    /\ file_name' = [file_name EXCEPT ![w] = task_queue[Len(task_queue)]]
    /\ task_queue' = SubSeq(task_queue, 1, Len(task_queue) - 1)
    /\ deq' = Append(deq, task_queue[Len(task_queue)])
    /\ pc' = [pc EXCEPT ![w] = "process"]
    /\ UNCHANGED cfgVars
    /\ UNCHANGED heldAtStop
    /\ UNCHANGED << config_threads, srcDir, unfinished, stop_event, enq,
                    acks, succeeded, failed, atStop, runs >>
    /\ UNCHANGED dispVars

\* Get returning the head without removing it
Get_Peek(w) ==
    /\ pc[w] = "get"
    /\ task_queue # << >>
    /\ file_name' = [file_name EXCEPT ![w] = Head(task_queue)]
    /\ task_queue' = task_queue
    /\ deq' = Append(deq, Head(task_queue))
    /\ pc' = [pc EXCEPT ![w] = "process"]
    /\ UNCHANGED cfgVars
    /\ UNCHANGED heldAtStop
    /\ UNCHANGED << config_threads, srcDir, unfinished, stop_event, enq,
                    acks, succeeded, failed, atStop, runs >>
    /\ UNCHANGED dispVars

\* run(): self.task_queue.get(timeout=1) returns an item
Get(w) ==
    /\ pc[w] = "get"
    /\ task_queue # << >>
    /\ file_name' = [file_name EXCEPT ![w] = Head(task_queue)]
    /\ task_queue' = Tail(task_queue)
    /\ deq' = Append(deq, Head(task_queue))
    /\ pc' = [pc EXCEPT ![w] = "process"]
    /\ UNCHANGED cfgVars
    /\ UNCHANGED heldAtStop
    /\ UNCHANGED << config_threads, srcDir, unfinished, stop_event, enq,
                    acks, succeeded, failed, atStop, runs >>
    /\ UNCHANGED dispVars

\* GetTimeout falling through to task_done() instead of "continue"
GetTimeout_Acks(w) ==
    /\ pc[w] = "get"
    /\ task_queue = << >>
    /\ IF unfinished <= 0
       THEN /\ pc' = [pc EXCEPT ![w] = "crashed"]
            /\ UNCHANGED unfinished
       ELSE /\ pc' = [pc EXCEPT ![w] = "check"]
            /\ unfinished' = unfinished - 1
    /\ UNCHANGED cfgVars
    /\ UNCHANGED heldAtStop
    /\ UNCHANGED << config_threads, srcDir, task_queue, stop_event,
                    file_name >>
    /\ UNCHANGED dispVars
    /\ UNCHANGED histVars

\* run(): get raises queue.Empty after the timeout
GetTimeout(w) ==
    /\ pc[w] = "get"
    /\ task_queue = << >>
    /\ pc' = [pc EXCEPT ![w] = "empty"]
    /\ UNCHANGED cfgVars
    /\ UNCHANGED heldAtStop
    /\ UNCHANGED << config_threads, srcDir, task_queue, unfinished,
                    stop_event, file_name >>
    /\ UNCHANGED dispVars
    /\ UNCHANGED histVars

\* EmptyContinue leaving the loop on queue.Empty ("break")
EmptyContinue_Breaks(w) ==
    /\ pc[w] = "empty"
    /\ pc' = [pc EXCEPT ![w] = "stopped"]
    /\ UNCHANGED cfgVars
    /\ UNCHANGED heldAtStop
    /\ UNCHANGED << config_threads, srcDir, task_queue, unfinished,
                    stop_event, file_name >>
    /\ UNCHANGED dispVars
    /\ UNCHANGED histVars

\* EmptyContinue acknowledging the task left in file_name by an earlier
\* iteration before it continues
EmptyContinue_StaleAck(w) ==
    /\ pc[w] = "empty"
    /\ pc' = [pc EXCEPT ![w] = "check"]
    /\ unfinished' = IF unfinished > 0 THEN unfinished - 1 ELSE unfinished
    /\ UNCHANGED cfgVars
    /\ UNCHANGED heldAtStop
    /\ UNCHANGED << config_threads, srcDir, task_queue, stop_event,
                    file_name >>
    /\ UNCHANGED dispVars
    /\ UNCHANGED histVars

\* run(): "except queue.Empty: continue"
EmptyContinue(w) ==
    /\ pc[w] = "empty"
    /\ pc' = [pc EXCEPT ![w] = "check"]
    /\ UNCHANGED cfgVars
    /\ UNCHANGED heldAtStop
    /\ UNCHANGED << config_threads, srcDir, task_queue, unfinished,
                    stop_event, file_name >>
    /\ UNCHANGED dispVars
    /\ UNCHANGED histVars

\* ProcessImage that gives the task up when the stop event is set
ProcessImage_Cancellable(w) ==
    /\ pc[w] = "process"
    /\ IF stop_event
       THEN /\ pc' = [pc EXCEPT ![w] = "stopped"]
            /\ UNCHANGED << succeeded, failed >>
       ELSE /\ pc' = [pc EXCEPT ![w] = "ack"]
            /\ IF srcDir.entries[file_name[w]].corrupt
               THEN /\ failed' = failed \cup {file_name[w]}
                    /\ UNCHANGED succeeded
               ELSE /\ succeeded' = succeeded \cup {file_name[w]}
                    /\ UNCHANGED failed
    /\ UNCHANGED cfgVars
    /\ UNCHANGED heldAtStop
    /\ UNCHANGED << config_threads, srcDir, task_queue, unfinished,
                    stop_event, file_name, enq, deq, acks, atStop, runs >>
    /\ UNCHANGED dispVars

\* ProcessImage whose save fails when another worker is saving too
ProcessImage_Racy(w) ==
    /\ pc[w] = "process"
    /\ IF \/ srcDir.entries[file_name[w]].corrupt
          \/ \E v \in DOMAIN pc : v # w /\ pc[v] = "process"
       THEN /\ failed' = failed \cup {file_name[w]}
            /\ UNCHANGED succeeded
       ELSE /\ succeeded' = succeeded \cup {file_name[w]}
            /\ UNCHANGED failed
    /\ pc' = [pc EXCEPT ![w] = "ack"]
    /\ UNCHANGED cfgVars
    /\ UNCHANGED heldAtStop
    /\ UNCHANGED << config_threads, srcDir, task_queue, unfinished,
                    stop_event, file_name, enq, deq, acks, atStop, runs >>
    /\ UNCHANGED dispVars

\* ProcessImage whose except clause also calls task_done()
ProcessImage_AcksInHandler(w) ==
    /\ pc[w] = "process"
    /\ IF srcDir.entries[file_name[w]].corrupt
       THEN /\ failed' = failed \cup {file_name[w]}
            /\ unfinished' = unfinished - 1
            /\ acks' = [acks EXCEPT ![file_name[w]] = @ + 1]
            /\ UNCHANGED succeeded
       ELSE /\ succeeded' = succeeded \cup {file_name[w]}
            /\ UNCHANGED << failed, unfinished, acks >>
    /\ pc' = [pc EXCEPT ![w] = "ack"]
    /\ UNCHANGED cfgVars
    /\ UNCHANGED heldAtStop
    /\ UNCHANGED << config_threads, srcDir, task_queue, stop_event,
                    file_name, enq, deq, atStop, runs >>
    /\ UNCHANGED dispVars

\* ProcessImage without the except clause: the exception ends the thread
ProcessImage_Propagates(w) ==
    /\ pc[w] = "process"
    /\ IF srcDir.entries[file_name[w]].corrupt
       THEN /\ pc' = [pc EXCEPT ![w] = "crashed"]
            /\ UNCHANGED << succeeded, failed >>
       ELSE /\ succeeded' = succeeded \cup {file_name[w]}
            /\ pc' = [pc EXCEPT ![w] = "ack"]
            /\ UNCHANGED failed
    /\ UNCHANGED cfgVars
    /\ UNCHANGED heldAtStop
    /\ UNCHANGED << config_threads, srcDir, task_queue, unfinished,
                    stop_event, file_name, enq, deq, acks, atStop, runs >>
    /\ UNCHANGED dispVars

\* process_image(file_name): the try block and its "except Exception"
ProcessImage(w) ==
    /\ pc[w] = "process"
    /\ IF srcDir.entries[file_name[w]].corrupt
       THEN /\ failed' = failed \cup {file_name[w]}
            /\ UNCHANGED succeeded
       ELSE /\ succeeded' = succeeded \cup {file_name[w]}
            /\ UNCHANGED failed
    /\ pc' = [pc EXCEPT ![w] = "ack"]
    /\ UNCHANGED cfgVars
    /\ UNCHANGED heldAtStop
    /\ UNCHANGED << config_threads, srcDir, task_queue, unfinished,
                    stop_event, file_name, enq, deq, acks, atStop, runs >>
    /\ UNCHANGED dispVars

\* run(): self.task_queue.task_done(); ValueError if called too often.
\* file_name is dead after this statement and is cleared here.
TaskDone(w) ==
    /\ pc[w] = "ack"
    /\ IF unfinished <= 0
       THEN /\ pc' = [pc EXCEPT ![w] = "crashed"]
            /\ UNCHANGED << unfinished, acks >>
       ELSE /\ pc' = [pc EXCEPT ![w] = "check"]
            /\ unfinished' = unfinished - 1
            /\ acks' = [acks EXCEPT ![file_name[w]] = @ + 1]
    /\ file_name' = [file_name EXCEPT ![w] = NoTask]
    /\ UNCHANGED cfgVars
    /\ UNCHANGED heldAtStop
    /\ UNCHANGED << config_threads, srcDir, task_queue, stop_event, enq, deq,
                    succeeded, failed, atStop, runs >>
    /\ UNCHANGED dispVars

WorkerStep(w) ==
    \/ LoopTestStop(w)
    \/ LoopTestEmpty(w)
    \/ Get(w)
    \/ GetTimeout(w)
    \/ EmptyContinue(w)
    \/ ProcessImage(w)
    \/ TaskDone(w)

DispatcherStep ==
    \/ Run
    \/ StartWorker
    \/ ListDir
    \/ ProduceEntry
    \/ QueueJoin
    \/ StopSet
    \/ ThreadJoin

\* An environment that raises the Stop Signal at a moment of its choosing
EnvRaiseStop ==
    /\ ~stop_event
    /\ stop_event' = TRUE
    /\ atStop' = Range(task_queue)
    /\ heldAtStop' = {file_name[w] : w \in {v \in DOMAIN pc :
                                          pc[v] \in {"process", "ack"}}}
    /\ UNCHANGED cfgVars
    /\ UNCHANGED << config_threads, srcDir, task_queue, unfinished, pc,
                    file_name, enq, deq, acks, succeeded, failed, runs >>
    /\ UNCHANGED dispVars

Next ==
    \/ DispatcherStep
    \/ \E w \in Workers : WorkerStep(w)

Spec == Init /\ [][Next]_vars

\* Threads are scheduled fairly: the main thread and every worker thread
\* keep running while they have a step to take.
MaxPool == IF MaxThreads > MaxCpu THEN MaxThreads ELSE MaxCpu

FairSpec ==
    /\ Spec
    /\ WF_vars(DispatcherStep)
    /\ \A w \in 1..MaxPool : WF_vars(w \in Workers /\ WorkerStep(w))

NextRerun == Next \/ RunAgain
SpecRerun == Init /\ [][NextRerun]_vars

\* The worker loop is run on batches of valid entries with a configured
\* pool size; the environment chooses when the event is set.
InitEnvStop ==
    /\ Init
    /\ config_threads >= 1
    /\ srcDir.status = "ok"
    /\ \A i \in DOMAIN srcDir.entries : ValidateInputFile(srcDir.entries[i])

NextEnvStop == Next \/ EnvRaiseStop
SpecEnvStop == InitEnvStop /\ [][NextEnvStop]_vars

NextConfig == LoadStep \/ ResolveStep \/ RunAnyCpu \/ Next
SpecConfig == InitConfig /\ [][NextConfig]_vars

TypeOK ==
    /\ dpc \in {"new", "loaded", "init_failed", "constructed", "spawn",
                "enum", "join", "set", "jointhreads", "finished", "aborted"}
    /\ unfinished \in Int
    /\ stop_event \in BOOLEAN
    /\ \A w \in Workers :
          pc[w] \in {"check", "checkq", "get", "empty", "process", "ack",
                     "stopped", "crashed"}

\* ------------------------------------------------------ derived notions
\* A worker holds a Task between a successful get and its task_done
Holding(w) == pc[w] \in {"process", "ack"}

\* The run is complete: run() returned after _wait_for_completion
RunComplete ==
    /\ dpc = "finished"
    /\ stop_event
    /\ \A w \in Workers : pc[w] = "stopped"
    /\ \A t \in Range(enq) : acks[t] >= 1

\* ----------------------------------------------------------------- claims

\* C1: every run of the Dispatcher terminates: under fair scheduling every
\* enqueued task is eventually acknowledged, the Stop Signal is raised,
\* every Worker is Stopped and run() has returned.
C1_EveryRunTerminates == <>RunComplete

\* C2: every dequeued Task is acknowledged at most once at any time and
\* exactly once when the run is complete, where enqueued_count equals
\* succeeded_count + failed_count.
C2_AckExactlyOnce ==
    /\ \A t \in DOMAIN acks :
          /\ acks[t] <= 1
          /\ acks[t] = 1 => t \in Range(deq) /\ t \in succeeded \cup failed
    /\ succeeded \cap failed = {}
    /\ dpc = "finished" =>
          /\ Len(enq) = Cardinality(succeeded) + Cardinality(failed)
          /\ \A t \in Range(enq) : acks[t] = 1
          /\ \A t \in Range(deq) : acks[t] = 1

C2_Witness ==
    /\ dpc = "finished"
    /\ succeeded # {}
    /\ failed # {}

\* C3: no Task is delivered to more than one Worker: every Task is returned
\* by at most one get (exactly one once the run is complete) and no two
\* Workers hold the same Task at the same time.
C3_DequeueMutualExclusion ==
    /\ \A i, j \in DOMAIN deq : i # j => deq[i] # deq[j]
    /\ Range(deq) \subseteq Range(enq)
    /\ \A v, w \in Workers :
          (v # w /\ Holding(v) /\ Holding(w)) => file_name[v] # file_name[w]
    /\ dpc = "finished" => Range(deq) = Range(enq)

C3_Witness ==
    \E v, w \in Workers :
        /\ v # w
        /\ Holding(v)
        /\ Holding(w)
        /\ file_name[v] # file_name[w]

\* C4: the unfinished count is never negative, and it is zero exactly when
\* every Task enqueued so far has been dequeued and acknowledged.
C4_UnfinishedCount ==
    /\ unfinished >= 0
    /\ unfinished = 0 <=>
          \A t \in Range(enq) : t \in Range(deq) /\ acks[t] >= 1

C4_Witness ==
    /\ dpc = "enum"
    /\ enq # << >>
    /\ unfinished = 0

\* C5: when task_queue.join() has returned, the unfinished count is zero,
\* the queue is empty, no Worker holds a Task and every one of the M
\* enqueued Tasks has been acknowledged.
C5_JoinReturnsDrained ==
    dpc = "set" =>
        /\ unfinished = 0
        /\ task_queue = << >>
        /\ \A w \in Workers : ~Holding(w)
        /\ Cardinality({t \in DOMAIN acks : acks[t] >= 1}) = Len(enq)
        /\ Len(enq) = added_count

C5_Witness ==
    /\ dpc = "set"
    /\ Len(enq) >= 2

\* C6 (as stated): no Worker reaches Stopped while the Work Queue is
\* non-empty or a previously enqueued Task is still unacknowledged.
C6_NoExitBeforeDrain ==
    [][\A w \in Workers :
          (pc[w] # "stopped" /\ pc'[w] = "stopped") =>
              (task_queue' = << >> /\ unfinished' = 0)]_vars

\* C6 (amended): a Worker is Stopped only when the Stop Signal is set and
\* no Task that was in the Work Queue when the signal was raised is still
\* in the queue; another Worker may still hold such a Task.
C6_NoExitBeforeQueueAtStopEmptied ==
    \A w \in Workers :
        pc[w] = "stopped" =>
            /\ stop_event
            /\ atStop \cap Range(task_queue) = {}

C6_Witness ==
    \E v, w \in Workers :
        /\ pc[v] = "stopped"
        /\ Holding(w)
        /\ file_name[w] \in atStop

\* C7: a failing Transform neither ends the Worker nor the run: the Worker
\* goes on to acknowledge the Task and to re-evaluate its loop, the Task is
\* counted as failed and not as succeeded, no thread crashes, and the run
\* completes.
C7_TransformFailureContained ==
    /\ [][\A w \in Workers :
             /\ (pc[w] = "process" /\ pc'[w] # "process") =>
                   /\ pc'[w] = "ack"
                   /\ file_name'[w] = file_name[w]
                   /\ srcDir.entries[file_name[w]].corrupt =>
                         /\ file_name[w] \in failed'
                         /\ file_name[w] \notin succeeded'
             /\ (pc[w] = "ack" /\ pc'[w] # "ack") => pc'[w] = "check"]_vars
    /\ [](\A w \in Workers : pc[w] # "crashed")
    /\ (failed # {}) ~> RunComplete

C7_Witness ==
    /\ RunComplete
    /\ failed # {}
    /\ succeeded # {}

\* C8: an unreadable source directory is never escalated: nothing is
\* enqueued or claimed, run() does not raise, and the run completes.
C8_UnreadableDirNotEscalated ==
    srcDir.status # "ok" =>
        /\ dpc # "aborted"
        /\ enq = << >>
        /\ deq = << >>

\* C9: the Stop Signal is clear after construction, never goes from set to
\* clear, and is set only by the Dispatcher in _wait_for_completion.
C9_StopSignalMonotonic ==
    /\ [](dpc = "constructed" => ~stop_event)
    /\ [][/\ stop_event => stop_event'
          /\ (~stop_event /\ stop_event') =>
                (dpc = "set" /\ dpc' = "jointhreads" /\ pc' = pc)]_vars

C9_Witness ==
    /\ stop_event
    /\ dpc = "finished"

\* C10: every invocation of run(), a second one on the same object
\* included, begins with an empty queue, unfinished count 0, a clear Stop
\* Signal and no Worker of an earlier run in the pool.
C10_RunBeginsFresh ==
    (dpc = "spawn" /\ spawned = 0) =>
        /\ task_queue = << >>
        /\ unfinished = 0
        /\ ~stop_event
        /\ threads = << >>

\* C11: the Task Source enqueues exactly the listed entries that are a
\* regular file, end case-insensitively with a recognized extension and
\* have a size above zero, each once and in listing order; every other
\* entry is counted as skipped and enumeration goes on to the end.
RecognizedSpellings ==
    {".jpg", ".jpeg", ".png", ".bmp", ".JPG", ".JPEG", ".PNG", ".BMP"}

SatisfiesAllChecks(e) ==
    e.isfile /\ e.ext \in RecognizedSpellings /\ e.size > 0

C11_ExactlyValidEntriesEnqueued ==
    dpc \notin {"constructed", "spawn"} =>
        LET seen == 1..(next_entry - 1)
            good == {i \in seen : SatisfiesAllChecks(srcDir.entries[i])}
        IN /\ seen \subseteq Tasks
           /\ Range(enq) = good
           /\ Len(enq) = Cardinality(good)
           /\ \A i, j \in DOMAIN enq : i < j => enq[i] < enq[j]
           /\ added_count = Cardinality(good)
           /\ skipped_count = Cardinality(seen \ good)
           /\ dpc # "enum" => seen = Tasks

C11_Witness ==
    /\ dpc = "join"
    /\ \E i, j \in Tasks :
          /\ i < j
          /\ ~SatisfiesAllChecks(srcDir.entries[i])
          /\ srcDir.entries[j].ext = ".PNG"
          /\ j \in Range(enq)
    /\ skipped_count >= 1

\* C14: the outcome of a run is a function of the batch alone: when the
\* run is complete the succeeded set and the failed set are the valid
\* entries the Transform accepts and rejects, whatever the pool size and
\* the interleaving, so two runs of one batch agree.
C14_OutcomeDeterminedByBatch ==
    dpc = "finished" =>
        /\ succeeded = {t \in Tasks : /\ ValidateInputFile(srcDir.entries[t])
                                      /\ ~srcDir.entries[t].corrupt}
        /\ failed = {t \in Tasks : /\ ValidateInputFile(srcDir.entries[t])
                                   /\ srcDir.entries[t].corrupt}

C14_Witness ==
    /\ dpc = "finished"
    /\ Len(threads) >= 2
    /\ Cardinality(succeeded) >= 2
    /\ failed # {}

\* C16: the Dispatcher's steps are strictly ordered: all count Workers are
\* started before the first put; join() is entered only after enumeration
\* ended; the Stop Signal is set only after join() returned; threads are
\* joined only after the signal is set; run() returns only after every
\* Worker has stopped.
C16_DispatcherOrder ==
    /\ enq # << >> => (dpc # "spawn" /\ count >= 1 /\ Len(threads) = count)
    /\ dpc \in {"join", "set", "jointhreads", "finished"} =>
          (spawned = count /\ next_entry = Len(srcDir.entries) + 1)
    /\ dpc = "set" => unfinished = 0
    /\ stop_event => (dpc \in {"jointhreads", "finished"} /\ unfinished = 0)
    /\ joined > 0 => stop_event
    /\ dpc = "finished" =>
          (joined = Len(threads) /\ \A w \in Workers : pc[w] = "stopped")

C16_Witness ==
    /\ dpc = "finished"
    /\ enq # << >>
    /\ Len(threads) >= 2

\* C20: the unfinished count equals the number of queued Tasks plus the
\* number of Workers holding a Task; hence once the Dispatcher has set the
\* Stop Signal the queue is empty, no Worker holds a Task and no Worker
\* dequeues a Task any more.
C20_Conservation ==
    /\ [](unfinished =
              Len(task_queue) + Cardinality({w \in Workers : Holding(w)}))
    /\ [](stop_event =>
              /\ task_queue = << >>
              /\ \A w \in Workers : ~Holding(w))
    /\ [][stop_event => deq' = deq]_vars

C20_Witness ==
    /\ stop_event
    /\ Len(deq) >= 2
    /\ \E w \in Workers : pc[w] = "get"

\* C12: Workers started before any Task is enqueued survive an empty
\* queue: no Worker crashes, a Worker is Stopped only if the Stop Signal
\* is set, and every Task enqueued is claimed before join() returns.
C12_EmptyQueueTolerated ==
    /\ \A w \in Workers : pc[w] # "crashed"
    /\ \A w \in Workers : pc[w] = "stopped" => stop_event
    /\ dpc \in {"set", "jointhreads", "finished"} =>
          Range(enq) \subseteq Range(deq)

C12_Witness ==
    /\ dpc = "enum"
    /\ task_queue # << >>
    /\ \E w \in Workers : pc[w] = "empty"

\* C17: a get that raises queue.Empty, and the continue that follows it,
\* leave the queue, the unfinished count, the acknowledgments and the Stop
\* Signal unchanged and lead the Worker back to its loop condition.
C17_EmptyDequeueFrame ==
    [][\A w \in Workers :
          /\ (pc[w] = "get" /\ pc'[w] \notin {"get", "process"}) =>
                /\ pc'[w] = "empty"
                /\ task_queue = << >>
                /\ task_queue' = task_queue
                /\ unfinished' = unfinished
                /\ acks' = acks
                /\ stop_event' = stop_event
          /\ (pc[w] = "empty" /\ pc'[w] # "empty") =>
                /\ pc'[w] = "check"
                /\ task_queue' = task_queue
                /\ unfinished' = unfinished
                /\ acks' = acks
                /\ stop_event' = stop_event]_vars

C17_Witness ==
    /\ Len(threads) = 1
    /\ pc[1] = "empty"
    /\ unfinished > 0
    /\ \E t \in DOMAIN acks : acks[t] = 1

\* C18: a Worker that holds a Task moves only from processing to the
\* acknowledgment and from there to the loop condition, with the Task
\* processed and acknowledged on the way; it never becomes Stopped while
\* holding a Task, also when the Stop Signal is raised meanwhile.
C18_NoMidTaskCancellation ==
    [][\A w \in Workers :
          /\ pc[w] = "process" =>
                /\ pc'[w] \in {"process", "ack"}
                /\ file_name'[w] = file_name[w]
                /\ pc'[w] = "ack" => file_name[w] \in succeeded' \cup failed'
          /\ pc[w] = "ack" =>
                /\ pc'[w] \in {"ack", "check"}
                /\ pc'[w] = "check" =>
                      acks'[file_name[w]] = acks[file_name[w]] + 1
          /\ (pc[w] # "stopped" /\ pc'[w] = "stopped") => pc[w] = "checkq"]_vars

C18_Witness ==
    \E t \in heldAtStop : acks[t] = 1 /\ t \in succeeded \cup failed

\* C19: Tasks leave the queue in the order they were put: the dequeue
\* history is always a prefix of the enqueue history, each get returns the
\* oldest Task not yet dequeued, and at completion both histories agree;
\* acknowledgments may come in another order.
C19_Fifo ==
    /\ [](/\ Len(deq) <= Len(enq)
          /\ deq = SubSeq(enq, 1, Len(deq)))
    /\ [](dpc = "finished" => deq = enq)
    /\ [][deq' # deq =>
             /\ Len(deq') = Len(deq) + 1
             /\ \A i \in DOMAIN deq : deq[i] < deq'[Len(deq')]
             /\ \E w \in Workers :
                   /\ pc[w] = "get"
                   /\ file_name'[w] = deq'[Len(deq')]
                   /\ file_name'[w] = Head(task_queue)]_vars

C19_Witness ==
    \E s, t \in Range(deq) :
        /\ s < t
        /\ acks[s] = 0
        /\ acks[t] = 1

\* C13 (as stated): the pool size is the configured thread count if it is
\* positive and, if it is zero or unset, the number of processing units or
\* 4 when that is unknown; exactly that many Workers are started and the
\* pool keeps that size.
C13_PoolSizeUnsetIsAuto ==
    dpc \in {"spawn", "enum", "join", "set", "jointhreads", "finished",
             "aborted"} =>
        LET n == IF "number_of_threads" \in DOMAIN config
                 THEN config["number_of_threads"] ELSE 0
        IN /\ n <= 0 => cpu_count # NotRead
           /\ count = IF n > 0 THEN n
                      ELSE IF cpu_count = CpuUnknown THEN DefaultThreads
                      ELSE cpu_count
           /\ Len(threads) = IF dpc = "spawn" THEN spawned ELSE count
           /\ spawned <= count

\* C13 (amended): as stated for a thread count that is set; a thread count
\* that is unset is not defaulted: run() raises KeyError and starts no
\* Worker.
C13_PoolSize ==
    dpc \in {"spawn", "enum", "join", "set", "jointhreads", "finished",
             "aborted"} =>
        IF "number_of_threads" \in DOMAIN config
        THEN LET n == config["number_of_threads"]
             IN /\ n <= 0 => cpu_count # NotRead
                /\ count = IF n > 0 THEN n
                           ELSE IF cpu_count = CpuUnknown THEN DefaultThreads
                           ELSE cpu_count
                /\ count >= 1
                /\ Len(threads) = IF dpc = "spawn" THEN spawned ELSE count
                /\ spawned <= count
        ELSE /\ dpc = "aborted"
             /\ raised = "KeyError"
             /\ threads = << >>

C13_Witness ==
    /\ dpc = "finished"
    /\ config["number_of_threads"] = 0
    /\ cpu_count = CpuUnknown
    /\ Len(threads) = DefaultThreads
    /\ deq # << >>

\* C15: load_config returns the JSON object with every field as in the
\* file when the file exists and is valid JSON; it raises FileNotFoundError
\* for a missing file and ValueError for invalid JSON, and then __init__
\* binds no config, queue, stop event or thread list and no Worker exists.
C15_LoadConfig ==
    LET members == cfgFile.members
        nothingCreated ==
            /\ attrs \cap {"config", "task_queue", "stop_event", "threads"} = {}
            /\ config = << >>
            /\ threads = << >>
            /\ pc = << >>
    IN /\ dpc = "loaded" =>
             /\ cfgFile.exists
             /\ cfgFile.json = "valid"
             /\ raised = "none"
             /\ DOMAIN config = {members[i][1] : i \in DOMAIN members}
             /\ \A i \in DOMAIN members :
                   (\A j \in DOMAIN members :
                        members[j][1] = members[i][1] => j <= i)
                      => config[members[i][1]] = members[i][2]
       /\ (dpc # "new" /\ ~cfgFile.exists) =>
             /\ dpc = "init_failed"
             /\ raised = "FileNotFoundError"
             /\ nothingCreated
       /\ (dpc # "new" /\ cfgFile.exists /\ cfgFile.json # "valid") =>
             /\ dpc = "init_failed"
             /\ raised = "ValueError"
             /\ nothingCreated
       /\ (dpc # "new" /\ cfgFile.exists /\ cfgFile.json = "valid") =>
             "config" \in attrs

C15_Witness ==
    /\ dpc = "loaded"
    /\ Len(cfgFile.members) > Cardinality(DOMAIN config)
    /\ config["number_of_threads"] = 2
    /\ config["source_folder"] = "data/input"
====
